---- MODULE Spec2Model ----
(***************************************************************************)
(* Model of notifier/stomp/failover.go: the failOver connector.           *)
(*                                                                         *)
(* A failOver holds three fields (tls, login, uris).  Connection(ctx)      *)
(* ranges over uris and calls Dial(ctx, uri) on each; Dial opens a         *)
(* transport with DialContext, runs the STOMP handshake with               *)
(* gostomp.Connect and closes the transport when the handshake fails.      *)
(*                                                                         *)
(* Several Connection calls run on one failOver value.  Each call is a     *)
(* little process whose steps are the blocking points of the code: the     *)
(* transport dial, the handshake and the close.  The outcome of a dial or  *)
(* of a handshake is chosen by the environment (the broker) when the step  *)
(* completes and is written down in outs.  Spec runs the calls            *)
(* concurrently; SpecCtx runs one call whose context the caller may        *)
(* cancel at any moment before the call returns; SpecLive is SpecCtx with  *)
(* weak fairness of the steps of the call.                                 *)
(***************************************************************************)
EXTENDS Integers, Sequences, FiniteSets, TLC

\* ---- bounds ------------------------------------------------------------
\* longest endpoint list of a single call, of concurrent calls
MaxUris == 3
MaxUrisConcurrent == 2
NumCalls == 2

Calls == 1..NumCalls

\* ---- values ------------------------------------------------------------
NoConn == <<>>
NoLogin == "nil"
NoTLS == "nil"
NoCancel == [idx |-> -1, pc |-> "none"]

\* the address of the i-th configured broker
Broker(i) == <<"broker", i, 61613>>

\* a transport socket is named by the call that opened it and the position
\* of the endpoint it was opened for
MaxSock == IF MaxUris > MaxUrisConcurrent THEN MaxUris ELSE MaxUrisConcurrent

SockIds == Calls \X (1..MaxSock)

VARIABLES
    uris,       \* failOver.uris
    login,      \* failOver.login
    tls,        \* failOver.tls
    pc,         \* per call: where the call stands
    idx,        \* per call: position of the range loop in uris (0 before the first)
    ctxDone,    \* per call: the caller's context is cancelled or past its deadline
    cancelAt,   \* per call: where the call stood when its context was cancelled
    conn,       \* per call: Dial's local conn, the transport being handshaked
    ret,        \* per call: what Connection returned
    dials,      \* per call: DialContext invocations, in order
    connects,   \* per call: gostomp.Connect invocations, in order
    outs,       \* per call: outcome of each attempt, in order
    log,        \* per call: brokers named by the "failed to dial broker" events
    sockets,    \* every transport socket: state, address, who closed it
    dret,       \* per call: what the last Dial of the call returned
    earlier     \* per call: what the call found when it was invoked: for each
                \* other call, whether it had returned and left a connection open

vars == <<uris, login, tls, pc, idx, ctxDone, cancelAt, conn, ret,
          dials, connects, outs, log, sockets, dret, earlier>>

config == <<uris, login, tls>>

\* ---- the failOver value and the initial state ---------------------------
NoSocket == [st |-> "none", addr |-> NoConn, net |-> "none", hs |-> FALSE, by |-> 0]

\* a failOver as constructed, with at most m endpoints, and no call made yet
Construct(m) ==
    /\ uris \in {[i \in 1..n |-> Broker(i)] : n \in 0..m}
    /\ login \in {NoLogin, "login"}
    /\ tls \in {NoTLS, "tlsconfig"}
    /\ pc = [c \in Calls |-> "idle"]
    /\ idx = [c \in Calls |-> 0]
    /\ ctxDone = [c \in Calls |-> FALSE]
    /\ cancelAt = [c \in Calls |-> NoCancel]
    /\ conn = [c \in Calls |-> NoConn]
    /\ ret = [c \in Calls |-> [conn |-> NoConn, err |-> "none"]]
    /\ dials = [c \in Calls |-> <<>>]
    /\ connects = [c \in Calls |-> <<>>]
    /\ outs = [c \in Calls |-> <<>>]
    /\ log = [c \in Calls |-> <<>>]
    /\ sockets = [s \in SockIds |-> NoSocket]
    /\ dret = [c \in Calls |-> [conn |-> NoConn, err |-> "none"]]
    /\ earlier = [c \in Calls |-> [d \in Calls |-> "none"]]

Init == Construct(MaxUris)

InitConcurrent == Construct(MaxUrisConcurrent)

\* ---- Dial's set-up -------------------------------------------------------
\* the login option is never appended
OptsAnonymous(l) == <<>>

\* opts: the login option is appended iff f.login is set
Opts(l) == IF l # NoLogin THEN <<l>> ELSE <<>>

\* the plain dialer is never wrapped
DialerPlain(t) == "tcp"

\* d: a net.Dialer, wrapped in a tls.Dialer iff f.tls is set
Dialer(t) == IF t # NoTLS THEN "tls" ELSE "tcp"

\* ---- Connection's loop ----------------------------------------------------
\* the range loop takes the elements of f.uris one after the other
NextIndex(i) == i + 1

\* off by one: the loop stops before the last element
HasNextShort(i, u) == i < Len(u) - 1

HasNext(i, u) == i < Len(u)

\* the return on success is missing: the loop goes on after a success
DialReturnedContinue(c, cn, err) ==
    /\ pc' = [pc EXCEPT ![c] = "range"]
    /\ ret' = ret
    /\ log' = IF err # "nil" THEN [log EXCEPT ![c] = Append(@, uris[idx[c]])]
                             ELSE log

\* Dial's error is returned to the caller instead of being logged
DialReturnedPropagates(c, cn, err) ==
    /\ ret' = [ret EXCEPT ![c] = [conn |-> cn, err |-> err]]
    /\ pc' = [pc EXCEPT ![c] = "done"]
    /\ log' = log

\* only the dial errors are logged: a handshake error is skipped silently
DialReturnedLogsDialOnly(c, cn, err) ==
    IF err # "nil"
    THEN /\ log' = IF err = "dial"
                   THEN [log EXCEPT ![c] = Append(@, uris[idx[c]])]
                   ELSE log
         /\ pc' = [pc EXCEPT ![c] = "range"]
         /\ ret' = ret
    ELSE /\ ret' = [ret EXCEPT ![c] = [conn |-> cn, err |-> "nil"]]
         /\ pc' = [pc EXCEPT ![c] = "done"]
         /\ log' = log

\* Connection's handling of what Dial returned: an error is logged and the
\* loop continues; otherwise the connection is returned with a nil error.
DialReturned(c, cn, err) ==
    IF err # "nil"
    THEN /\ log' = [log EXCEPT ![c] = Append(@, uris[idx[c]])]
         /\ pc' = [pc EXCEPT ![c] = "range"]
         /\ ret' = ret
    ELSE /\ ret' = [ret EXCEPT ![c] = [conn |-> cn, err |-> "nil"]]
         /\ pc' = [pc EXCEPT ![c] = "done"]
         /\ log' = log

\* the loop ends with a nil error
ExhaustionNil == [conn |-> NoConn, err |-> "nil"]

\* the error Connection returns once the loop is over
Exhaustion == [conn |-> NoConn, err |-> "exhausted"]

\* ---- actions -------------------------------------------------------------
\* what a call that is invoked now finds: the other calls that have returned
\* a connection their caller has not closed ("open"), those that have
\* returned otherwise ("over"), and those that have not returned ("none")
Found(c) ==
    [d \in Calls |->
        IF d = c \/ pc[d] \notin {"done", "disconnected"} THEN "none"
        ELSE IF pc[d] = "done" /\ ret[d].conn # NoConn THEN "open"
        ELSE "over"]

\* broker affinity: the loop starts at the endpoint of a connection that an
\* earlier call returned and that is still open
ConnectionAffinity(c) ==
    /\ pc[c] = "idle"
    /\ \A d \in Calls : d < c => pc[d] # "idle"
    /\ pc' = [pc EXCEPT ![c] = "range"]
    /\ idx' = [idx EXCEPT ![c] =
                  IF \E d \in Calls : Found(c)[d] = "open"
                  THEN ret[CHOOSE d \in Calls : Found(c)[d] = "open"].conn[2] - 1
                  ELSE 0]
    /\ earlier' = [earlier EXCEPT ![c] = Found(c)]
    /\ UNCHANGED <<config, dret, ctxDone, cancelAt, conn, ret, dials, connects,
                   outs, log, sockets>>

\* a cached connection: a connection that an earlier call returned and that
\* is still open is returned again, without dialing
ConnectionCached(c) ==
    /\ pc[c] = "idle"
    /\ \A d \in Calls : d < c => pc[d] # "idle"
    /\ earlier' = [earlier EXCEPT ![c] = Found(c)]
    /\ IF \E d \in Calls : Found(c)[d] = "open"
       THEN /\ ret' = [ret EXCEPT ![c] =
                         ret[CHOOSE d \in Calls : Found(c)[d] = "open"]]
            /\ pc' = [pc EXCEPT ![c] = "done"]
       ELSE /\ ret' = ret
            /\ pc' = [pc EXCEPT ![c] = "range"]
    /\ idx' = [idx EXCEPT ![c] = 0]
    /\ UNCHANGED <<config, dret, ctxDone, cancelAt, conn, dials, connects,
                   outs, log, sockets>>

\* a caller invokes f.Connection(ctx); the calls are numbered in the order
\* of their invocation
Connection(c) ==
    /\ pc[c] = "idle"
    /\ \A d \in Calls : d < c => pc[d] # "idle"
    /\ pc' = [pc EXCEPT ![c] = "range"]
    /\ idx' = [idx EXCEPT ![c] = 0]
    /\ earlier' = [earlier EXCEPT ![c] = Found(c)]
    /\ UNCHANGED <<config, dret, ctxDone, cancelAt, conn, ret, dials, connects,
                   outs, log, sockets>>

\* the loop consumes f.uris as it goes
DialConsumes(c) ==
    /\ pc[c] = "range"
    /\ uris # <<>>
    /\ uris' = Tail(uris)
    /\ idx' = [idx EXCEPT ![c] = 1]
    /\ dials' = [dials EXCEPT ![c] =
                    Append(@, [idx |-> 1, uri |-> uris[1],
                               net |-> Dialer(tls), ctxDone |-> ctxDone[c]])]
    /\ conn' = [conn EXCEPT ![c] = NoConn]
    /\ pc' = [pc EXCEPT ![c] = "DialContext"]
    /\ UNCHANGED <<login, tls, dret, earlier, ctxDone, cancelAt, ret, connects, outs, log, sockets>>

\* the loop takes the next uri and calls f.Dial(ctx, uri), which builds its
\* options and dialer and invokes d.DialContext(ctx, "tcp", uri)
Dial(c) ==
    /\ pc[c] = "range"
    /\ HasNext(idx[c], uris)
    /\ idx' = [idx EXCEPT ![c] = NextIndex(@)]
    /\ dials' = [dials EXCEPT ![c] =
                    Append(@, [idx |-> idx'[c], uri |-> uris[idx'[c]],
                               net |-> Dialer(tls), ctxDone |-> ctxDone[c]])]
    /\ conn' = [conn EXCEPT ![c] = NoConn]
    /\ pc' = [pc EXCEPT ![c] = "DialContext"]
    /\ UNCHANGED <<config, dret, earlier, ctxDone, cancelAt, ret, connects, outs, log, sockets>>

\* the loop does not end with the list: it starts over at the first endpoint
ExhaustedStartsOver(c) ==
    /\ pc[c] = "range"
    /\ ~HasNext(idx[c], uris)
    /\ idx' = [idx EXCEPT ![c] = 0]
    /\ UNCHANGED <<config, dret, earlier, pc, ret, ctxDone, cancelAt, conn, dials,
                   connects, outs, log, sockets>>

\* the loop is over: Connection returns the exhaustion error
Exhausted(c) ==
    /\ pc[c] = "range"
    /\ ~HasNext(idx[c], uris)
    /\ ret' = [ret EXCEPT ![c] = Exhaustion]
    /\ pc' = [pc EXCEPT ![c] = "done"]
    /\ UNCHANGED <<config, dret, earlier, idx, ctxDone, cancelAt, conn, dials, connects,
                   outs, log, sockets>>

\* the dial does not look at the context
DialIgnoresCtx(c) == TRUE

\* DialContext observes the context: a dial that starts with a cancelled
\* context fails; a dial that was already under way when the context was
\* cancelled races with the cancellation and may still complete.
DialMaySucceed(c) ==
    \/ ~ctxDone[c]
    \/ /\ cancelAt[c].pc = "DialContext"
       /\ cancelAt[c].idx = idx[c]

\* d.DialContext returns a transport; Dial goes on to gostomp.Connect
DialContextOK(c) ==
    /\ pc[c] = "DialContext"
    /\ DialMaySucceed(c)
    /\ LET s == <<c, idx[c]>> IN
        /\ sockets' = [sockets EXCEPT ![s] =
                          [st |-> "open", addr |-> uris[idx[c]],
                           net |-> Dialer(tls), hs |-> FALSE, by |-> 0]]
        /\ conn' = [conn EXCEPT ![c] = s]
    /\ connects' = [connects EXCEPT ![c] =
                       Append(@, [idx |-> idx[c], opts |-> Opts(login)])]
    /\ pc' = [pc EXCEPT ![c] = "Connect"]
    /\ UNCHANGED <<config, dret, earlier, idx, ctxDone, cancelAt, ret, dials, outs, log>>

\* the dial error is dropped: Dial returns (nil, nil)
DialContextErrNilNil(c) ==
    /\ pc[c] = "DialContext"
    /\ outs' = [outs EXCEPT ![c] = Append(@, "dialfail")]
    /\ dret' = [dret EXCEPT ![c] = [conn |-> NoConn, err |-> "nil"]]
    /\ DialReturned(c, NoConn, "nil")
    /\ UNCHANGED <<config, earlier, idx, ctxDone, cancelAt, conn, dials, connects, sockets>>

\* d.DialContext returns an error; Dial returns (nil, "failed to connect to
\* broker") and Connection handles it
DialContextErr(c) ==
    /\ pc[c] = "DialContext"
    /\ outs' = [outs EXCEPT ![c] = Append(@, "dialfail")]
    /\ dret' = [dret EXCEPT ![c] = [conn |-> NoConn, err |-> "dial"]]
    /\ DialReturned(c, NoConn, "dial")
    /\ UNCHANGED <<config, earlier, idx, ctxDone, cancelAt, conn, dials, connects, sockets>>

\* gostomp.Connect succeeds; Dial returns (stompConn, nil) and Connection
\* handles it
ConnectOK(c) ==
    /\ pc[c] = "Connect"
    /\ sockets' = [sockets EXCEPT ![conn[c]].hs = TRUE]
    /\ outs' = [outs EXCEPT ![c] = Append(@, "ok")]
    /\ dret' = [dret EXCEPT ![c] = [conn |-> conn[c], err |-> "nil"]]
    /\ DialReturned(c, conn[c], "nil")
    /\ UNCHANGED <<config, earlier, idx, ctxDone, cancelAt, conn, dials, connects>>

\* the handshake error is dropped and the transport is returned as a
\* connection
ConnectErrReturnsConn(c) ==
    /\ pc[c] = "Connect"
    /\ outs' = [outs EXCEPT ![c] = Append(@, "hsfail")]
    /\ dret' = [dret EXCEPT ![c] = [conn |-> conn[c], err |-> "nil"]]
    /\ DialReturned(c, conn[c], "nil")
    /\ UNCHANGED <<config, earlier, idx, ctxDone, cancelAt, conn, dials, connects, sockets>>

\* gostomp.Connect returns an error; Dial enters its error branch
ConnectErr(c) ==
    /\ pc[c] = "Connect"
    /\ outs' = [outs EXCEPT ![c] = Append(@, "hsfail")]
    /\ pc' = [pc EXCEPT ![c] = "Close"]
    /\ UNCHANGED <<config, dret, earlier, idx, ctxDone, cancelAt, conn, ret, dials, connects,
                   log, sockets>>

\* the close is skipped
CloseTargetNil(c) == NoConn

\* the transport is kept in a place all calls share: the close hits the
\* transport that was opened last, whichever call opened it
CloseTargetShared(c) ==
    IF \E s \in SockIds : s[1] # c /\ sockets[s].st = "open"
    THEN CHOOSE s \in SockIds : s[1] # c /\ sockets[s].st = "open"
    ELSE conn[c]

\* the transport Dial closes in its error branch
CloseTarget(c) == conn[c]

\* the error branch returns without closing the transport
CloseLeaks(c) ==
    /\ pc[c] = "Close"
    /\ sockets' = sockets
    /\ dret' = [dret EXCEPT ![c] = [conn |-> NoConn, err |-> "handshake"]]
    /\ DialReturned(c, NoConn, "handshake")
    /\ UNCHANGED <<config, earlier, idx, ctxDone, cancelAt, conn, dials, connects, outs>>

\* the error branch: conn.Close() if conn is not nil, then Dial returns
\* (nil, "stomp connect handshake ... failed") and Connection handles it
Close(c) ==
    /\ pc[c] = "Close"
    /\ IF CloseTarget(c) # NoConn
       THEN sockets' = [sockets EXCEPT ![CloseTarget(c)].st = "closed",
                                       ![CloseTarget(c)].by = c]
       ELSE sockets' = sockets
    /\ dret' = [dret EXCEPT ![c] = [conn |-> NoConn, err |-> "handshake"]]
    /\ DialReturned(c, NoConn, "handshake")
    /\ UNCHANGED <<config, earlier, idx, ctxDone, cancelAt, conn, dials, connects, outs>>

\* the caller cancels the context of a call that has not returned yet (or
\* its deadline passes)
Cancel(c) ==
    /\ pc[c] \notin {"done", "disconnected"}
    /\ ~ctxDone[c]
    /\ ctxDone' = [ctxDone EXCEPT ![c] = TRUE]
    /\ cancelAt' = [cancelAt EXCEPT ![c] = [idx |-> idx[c], pc |-> pc[c]]]
    /\ UNCHANGED <<config, dret, earlier, pc, idx, conn, ret, dials, connects, outs, log, sockets>>

\* the caller is finished with the returned connection: conn.Disconnect()
\* closes the underlying transport
Disconnect(c) ==
    /\ pc[c] = "done"
    /\ ret[c].conn # NoConn
    /\ sockets' = [sockets EXCEPT ![ret[c].conn].st = "closed",
                                  ![ret[c].conn].by = c]
    /\ pc' = [pc EXCEPT ![c] = "disconnected"]
    /\ UNCHANGED <<config, dret, earlier, idx, ctxDone, cancelAt, conn, ret, dials, connects,
                   outs, log>>

\* one step of the call c
Step(c) ==
    \/ Connection(c)
    \/ Dial(c)
    \/ Exhausted(c)
    \/ DialContextOK(c)
    \/ DialContextErr(c)
    \/ ConnectOK(c)
    \/ ConnectErr(c)
    \/ Close(c)
    \/ Disconnect(c)

\* Concurrent calls on one failOver value, each with a context that is
\* never cancelled.
Next == \E c \in Calls : Step(c)

Spec == InitConcurrent /\ [][Next]_vars

\* One call whose context the caller may cancel at any moment.
Caller == 1

NextCtx == Step(Caller) \/ Cancel(Caller)

\* the steps of a call that has been invoked and has not returned
Run(c) ==
    \/ Dial(c)
    \/ Exhausted(c)
    \/ DialContextOK(c)
    \/ DialContextErr(c)
    \/ ConnectOK(c)
    \/ ConnectErr(c)
    \/ Close(c)

SpecCtx == Init /\ [][NextCtx]_vars

\* The same call, when every dial, handshake and close that is under way
\* eventually completes and the loop is not held up between two steps.
SpecLive == Init /\ [][NextCtx]_vars /\ WF_vars(Run(Caller))

\* ---- derived notions -----------------------------------------------------
Returned(c) == pc[c] \in {"done", "disconnected"}

\* positions of the endpoints this call has dialed, in the order of dialing
Attempted(c) == [j \in 1..Len(dials[c]) |-> dials[c][j].idx]

\* the list 1, 2, ..., n
UpTo(n) == [j \in 1..n |-> j]

\* sockets opened by call c
Opened(c) == {s \in SockIds : s[1] = c /\ sockets[s].st # "none"}

\* sockets opened by call c and not yet closed
Live(c) == {s \in SockIds : s[1] = c /\ sockets[s].st = "open"}

TypeOK ==
    /\ pc \in [Calls -> {"idle", "range", "DialContext", "Connect", "Close",
                         "done", "disconnected"}]
    /\ idx \in [Calls -> 0..Len(uris)]
    /\ ctxDone \in [Calls -> BOOLEAN]
    /\ \A c \in Calls : conn[c] = NoConn \/ conn[c] \in SockIds

\* ---- the sequential run ---------------------------------------------------
\* Connection as a function of the endpoint list and of the outcome o[i] of
\* the attempt on each endpoint: the first endpoint whose attempt succeeds
\* is returned, the exhaustion error if there is none.
RECURSIVE Solo(_, _, _, _)
Solo(c, u, o, i) ==
    IF i > Len(u) THEN [ret |-> Exhaustion, attempted |-> UpTo(Len(u))]
    ELSE IF i > Len(o) THEN [ret |-> [conn |-> NoConn, err |-> "none"],
                             attempted |-> UpTo(i)]
    ELSE IF o[i] = "ok" THEN [ret |-> [conn |-> <<c, i>>, err |-> "nil"],
                              attempted |-> UpTo(i)]
    ELSE Solo(c, u, o, i + 1)

\* ---- properties -------------------------------------------------------------
\* endpoint k is the first one whose dial and handshake both succeeded
FirstOK(c, k) ==
    /\ k \in 1..Len(outs[c])
    /\ outs[c][k] = "ok"
    /\ \A j \in 1..(k - 1) : outs[c][j] # "ok"

\* no attempt of the call has succeeded
NoneOK(c) == \A j \in 1..Len(outs[c]) : outs[c][j] # "ok"

\* C1: when endpoint k is the first whose dial and handshake both succeed,
\* Connection has returned a connection bound to endpoint k with a nil
\* error, the endpoints 1..k were dialed once each in list order, and no
\* endpoint after k is ever dialed.
C1_FirstSuccessWins ==
    \A c \in Calls : \A k \in 1..MaxSock :
        FirstOK(c, k) =>
            /\ Returned(c)
            /\ ret[c] = [conn |-> <<c, k>>, err |-> "nil"]
            /\ sockets[<<c, k>>].addr = uris[k]
            /\ Attempted(c) = UpTo(k)
            /\ \A j \in 1..Len(dials[c]) : dials[c][j].uri = uris[j]

C1_Witness ==
    \E c \in Calls : Len(uris) = 3 /\ FirstOK(c, 2) /\ Returned(c)

\* C2: when every attempted endpoint failed, at the dial or at the
\* handshake, a call that has returned has returned the exhaustion error
\* and no connection, and every endpoint was dialed exactly once, in list
\* order; at no moment has an endpoint been dialed twice or out of order.
C2_AllFailExhausted ==
    \A c \in Calls :
        /\ Attempted(c) = UpTo(Len(dials[c]))
        /\ (Returned(c) /\ NoneOK(c)) =>
              /\ ret[c] = [conn |-> NoConn, err |-> "exhausted"]
              /\ Attempted(c) = UpTo(Len(uris))
              /\ Len(outs[c]) = Len(uris)

C2_Witness ==
    \E c \in Calls :
        /\ Returned(c)
        /\ outs[c] = <<"dialfail", "hsfail", "dialfail">>

\* C3: at the start of every attempt, between attempts and at every failing
\* return, no socket opened by the call is still open.
C3_NoLeak ==
    \A c \in Calls :
        (\/ pc[c] \in {"range", "DialContext"}
         \/ (Returned(c) /\ ret[c].err # "nil"))
            => Live(c) = {}

C3_Witness ==
    \E c \in Calls :
        /\ pc[c] = "DialContext"
        /\ \E s \in Opened(c) : sockets[s].st = "closed" /\ ~sockets[s].hs

\* C4: a returned connection is a transport this call dialed successfully
\* and on which the handshake of this call completed.
C4_HandshakeCompleted ==
    \A c \in Calls :
        (Returned(c) /\ ret[c].conn # NoConn) =>
            /\ ret[c].conn \in Opened(c)
            /\ sockets[ret[c].conn].hs
            /\ ret[c].err = "nil"
            /\ \E j \in 1..Len(connects[c]) : connects[c][j].idx = ret[c].conn[2]

C4_Witness ==
    \E c \in Calls :
        /\ pc[c] = "done"
        /\ ret[c].conn = <<c, 2>>
        /\ outs[c] = <<"hsfail", "ok">>

\* the context of the call was cancelled before Connection was invoked
CancelledBeforeStart(c) == cancelAt[c].pc = "idle"

\* the context of the call was cancelled while the call was working on
\* endpoint i: during its dial, its handshake or its close
CancelledDuring(c, i) ==
    /\ cancelAt[c].pc \in {"DialContext", "Connect", "Close"}
    /\ cancelAt[c].idx = i

C7_OnlyTerminalErrors ==
    \A c \in Calls :
        /\ Returned(c) => /\ ret[c].err \in {"nil", "exhausted", "cancelled"}
                          /\ ret[c].err \notin {"dial", "handshake"}
        /\ ~Returned(c) => ret[c].err = "none"

C7_Witness ==
    \E c \in Calls :
        /\ Returned(c)
        /\ ret[c].err = "exhausted"
        /\ \E j \in 1..Len(outs[c]) : outs[c][j] = "dialfail"
        /\ \E j \in 1..Len(outs[c]) : outs[c][j] = "hsfail"

\* C8: with an empty endpoint list the call goes from its start straight to
\* its return: it returns the exhaustion error, has dialed nothing and has
\* opened no socket.
C8_EmptyList ==
    \A c \in Calls :
        uris = <<>> =>
            /\ pc[c] \in {"idle", "range", "done"}
            /\ dials[c] = <<>>
            /\ Opened(c) = {}
            /\ Returned(c) => ret[c] = [conn |-> NoConn, err |-> "exhausted"]

C8_Witness ==
    \E c \in Calls : uris = <<>> /\ Returned(c)

\* C9: under every interleaving of concurrent calls, each call dials its
\* endpoints in list order, returns what the sequential run returns on the
\* outcomes the call met, and no call closes, handshakes or returns a
\* socket opened by another call.
C9_CallsIndependent ==
    /\ \A c \in Calls :
        /\ Attempted(c) = UpTo(Len(dials[c]))
        /\ conn[c] # NoConn => conn[c][1] = c
        /\ Returned(c) =>
              /\ ret[c] = Solo(c, uris, outs[c], 1).ret
              /\ Attempted(c) = Solo(c, uris, outs[c], 1).attempted
              /\ ret[c].conn # NoConn => ret[c].conn \in Opened(c)
        /\ Live(c) \subseteq
              (IF pc[c] \in {"Connect", "Close"} THEN {conn[c]} ELSE {})
              \cup (IF pc[c] = "done" /\ ret[c].conn # NoConn
                    THEN {ret[c].conn} ELSE {})
    /\ \A s \in SockIds : sockets[s].st = "closed" => sockets[s].by = s[1]

C9_Witness ==
    \E c \in Calls : \E d \in Calls :
        /\ c # d
        /\ pc[c] = "Close"
        /\ pc[d] = "Connect"
        /\ Len(outs[c]) = 2
        /\ Len(outs[d]) = 1

\* C10: no step changes the endpoint list, the credentials or the TLS
\* configuration of the failOver.
C10_ConfigReadOnly ==
    [][uris' = uris /\ login' = login /\ tls' = tls]_vars

C10_Witness ==
    \E c \in Calls : \E d \in Calls :
        /\ c # d
        /\ Returned(c)
        /\ Returned(d)
        /\ Len(uris) = 2
        /\ login # NoLogin
        /\ tls # NoTLS
        /\ Len(connects[c]) >= 2

C13_CredentialsEveryAttempt ==
    \A c \in Calls : \A j \in 1..Len(connects[c]) :
        /\ login # "nil" => connects[c][j].opts = <<login>>
        /\ login = "nil" => connects[c][j].opts = <<>>

C13_Witness ==
    \E c \in Calls : \E d \in Calls :
        /\ c # d
        /\ login = "login"
        /\ Len(connects[c]) = 2
        /\ Len(connects[d]) >= 1
        /\ connects[c][2].opts = <<"login">>

\* C19: every dial of every call is a TLS dial when a TLS configuration is
\* present and a plain TCP dial when it is absent; so is every transport
\* that was opened.
C19_TransportFixed ==
    /\ \A c \in Calls : \A j \in 1..Len(dials[c]) :
          dials[c][j].net = (IF tls = "nil" THEN "tcp" ELSE "tls")
    /\ \A s \in SockIds :
          sockets[s].st # "none" =>
              sockets[s].net = (IF tls = "nil" THEN "tcp" ELSE "tls")

C19_Witness ==
    \E c \in Calls : \E d \in Calls :
        /\ c # d
        /\ tls = "tlsconfig"
        /\ Len(dials[c]) = 2
        /\ Len(dials[d]) >= 1
        /\ dials[c][2].net = "tls"
        /\ sockets[<<d, 1>>].net = "tls"

\* ---- failures, sockets and order within one call ---------------------------
\* the failures of the call that Connection has handled so far
Handled(c) ==
    IF outs[c] # <<>> /\ (outs[c][Len(outs[c])] = "ok" \/ pc[c] = "Close")
    THEN Len(outs[c]) - 1
    ELSE Len(outs[c])

\* C14: every failed attempt, at the dial or at the handshake, is logged
\* exactly once with its endpoint, in list order, and does not end the call:
\* a call that returns an error has dialed the whole list, and a call that
\* succeeds at endpoint k has logged the k-1 endpoints before it.
C14_FailuresAbsorbed ==
    \A c \in Calls :
        /\ log[c] = [j \in 1..Handled(c) |-> uris[j]]
        /\ (Returned(c) /\ ret[c].err # "nil") => Len(dials[c]) = Len(uris)
        /\ \A k \in 1..MaxSock :
              FirstOK(c, k) => Len(log[c]) = k - 1

C14_Witness ==
    \E c \in Calls :
        /\ outs[c] = <<"dialfail", "hsfail", "ok">>
        /\ ret[c] = [conn |-> <<c, 3>>, err |-> "nil"]
        /\ log[c] = <<Broker(1), Broker(2)>>
        /\ Len(dials[c]) = 3

\* C16: when Connection has returned a connection, the one socket of the
\* call that is open is the returned one; when it has returned an error,
\* no socket of the call is open; once a Dial has returned, a socket of the
\* call is open iff that Dial returned success.
C16_SocketOwnership ==
    \A c \in Calls :
        /\ (pc[c] = "done" /\ ret[c].conn # NoConn) => Live(c) = {ret[c].conn}
        /\ (pc[c] = "done" /\ ret[c].err # "nil") => Live(c) = {}
        /\ (pc[c] \in {"range", "done"} /\ dret[c].err # "none") =>
              /\ Live(c) # {} <=> dret[c].err = "nil"
              /\ dret[c].err = "nil" => Live(c) = {dret[c].conn}

C16_Witness ==
    \E c \in Calls :
        /\ pc[c] = "done"
        /\ Live(c) = {<<c, 3>>}
        /\ sockets[<<c, 1>>].st = "closed"
        /\ sockets[<<c, 2>>].st = "closed"

\* C17: the attempts of a call are strictly sequential: at most one socket
\* of the call is open, at most one attempt is under way, a handshake runs
\* on the transport that the dial of the same endpoint has just opened, and
\* a dial starts only when every earlier attempt has failed and left no
\* socket open.
C17_StrictlySequential ==
    \A c \in Calls :
        /\ Cardinality(Live(c)) <= 1
        /\ Len(dials[c]) - Len(outs[c]) \in {0, 1}
        /\ Len(connects[c]) <= Len(dials[c])
        /\ pc[c] \in {"Connect", "Close"} =>
              /\ conn[c] = <<c, idx[c]>>
              /\ dials[c][Len(dials[c])].idx = idx[c]
              /\ connects[c][Len(connects[c])].idx = idx[c]
        /\ pc[c] = "Connect" =>
              /\ sockets[conn[c]].st = "open"
              /\ Len(outs[c]) = Len(dials[c]) - 1
        /\ pc[c] = "DialContext" =>
              /\ Live(c) = {}
              /\ Len(outs[c]) = Len(dials[c]) - 1
              /\ NoneOK(c)
              /\ Len(connects[c]) < Len(dials[c])

C17_Witness ==
    \E c \in Calls :
        /\ pc[c] = "Connect"
        /\ idx[c] = 3
        /\ outs[c] = <<"hsfail", "dialfail">>

\* C20: Connection returns a connection iff it returns a nil error, and so
\* does every Dial.
C20_ConnXorError ==
    \A c \in Calls :
        /\ Returned(c) => (ret[c].conn # NoConn <=> ret[c].err = "nil")
        /\ dret[c].err # "none" => (dret[c].conn # NoConn <=> dret[c].err = "nil")

C20_Witness ==
    \E c \in Calls :
        /\ pc[c] = "done"
        /\ outs[c] = <<"dialfail", "ok">>
        /\ dret[c] = [conn |-> <<c, 2>>, err |-> "nil"]
        /\ ret[c] = [conn |-> <<c, 2>>, err |-> "nil"]

\* ---- cancellation during the handshake, termination -------------------------
\* the context of the call was cancelled while the handshake on endpoint i
\* was under way
CancelledInHandshake(c, i) ==
    /\ cancelAt[c].pc = "Connect"
    /\ cancelAt[c].idx = i

C18_Terminates ==
    /\ \A c \in Calls : (pc[c] = "range") ~> Returned(c)
    /\ [](\A c \in Calls :
            /\ Len(dials[c]) <= Len(uris)
            /\ \A j \in 1..Len(dials[c]) : dials[c][j].idx = j)

C18_Witness ==
    \E c \in Calls :
        /\ Returned(c)
        /\ Len(dials[c]) = 3
        /\ outs[c] = <<"hsfail", "hsfail", "hsfail">>

====
